---- MODULE Spec2Model ----
(***************************************************************************)
(* Model of the 3D pipeline scripts: versioned FBX export from Blender and *)
(* Maya, the Unreal import of the latest version, and the material map    *)
(* export / application.  File names are sequences of one-character       *)
(* strings so that formatting and parsing are computed as the scripts     *)
(* compute them.                                                           *)
(***************************************************************************)
EXTENDS Integers, Sequences, FiniteSets, TLC

VARIABLES
    arg,        \* inputs of the function under test (codec specification)
    op,         \* which function was applied to arg
    ret,        \* what it returned
    disk,       \* N:/GOLEMS_FATE/animations: (character, scene) -> directory
    folders,    \* Unreal content folders under /Game/ASSETS/Animations
    assets,     \* Unreal assets, as <<character, scene, asset name>>
    exports,    \* the files the exports wrote, in order: key, version, fresh
    imports,    \* per key, the versions of the files handed to the importer, in order
    runs,       \* import runs done
    changed,    \* a file was written since the last import run
    rerun,      \* the last import run followed a run with no export in between
    plan,       \* per key, what the last import run selected, checked and imported
    scene3d,    \* the Maya scene: each object's first material, each material's files
    mapFile,    \* the material map JSON document on disk
    applied,    \* what the last run of the Unreal material script did
    session     \* the export handler in progress, step by step (export specification)

codecVars == <<arg, op, ret>>
pipelineVars == <<disk, folders, assets, exports, imports, runs, changed, rerun, plan>>
materialVars == <<scene3d, mapFile, applied>>
vars == <<arg, op, ret, disk, folders, assets, exports, imports, runs, changed,
          rerun, plan, scene3d, mapFile, applied, session>>

----------------------------------------------------------------------------
(* Python string primitives                                                *)

Digits == {"0","1","2","3","4","5","6","7","8","9"}

Letters ==
    {"a","b","c","d","e","f","g","h","i","j","k","l","m",
     "n","o","p","q","r","s","t","u","v","w","x","y","z",
     "A","B","C","D","E","F","G","H","I","J","K","L","M",
     "N","O","P","Q","R","S","T","U","V","W","X","Y","Z"}

\* regex class \w
WordChars == Letters \cup Digits \cup {"_"}

DigitVal(c) ==
    CASE c = "0" -> 0 [] c = "1" -> 1 [] c = "2" -> 2 [] c = "3" -> 3
      [] c = "4" -> 4 [] c = "5" -> 5 [] c = "6" -> 6 [] c = "7" -> 7
      [] c = "8" -> 8 [] c = "9" -> 9

DigitChar(d) ==
    CASE d = 0 -> "0" [] d = 1 -> "1" [] d = 2 -> "2" [] d = 3 -> "3"
      [] d = 4 -> "4" [] d = 5 -> "5" [] d = 6 -> "6" [] d = 7 -> "7"
      [] d = 8 -> "8" [] d = 9 -> "9"

\* s[i:] with a 0-based Python index i >= 0
Drop(s, i) == SubSeq(s, i + 1, Len(s))

\* s[:-n]
DropLast(s, n) == SubSeq(s, 1, Len(s) - n)

\* str.startswith / str.endswith
startswith(s, p) == Len(p) <= Len(s) /\ SubSeq(s, 1, Len(p)) = p
endswith(s, p) == Len(p) <= Len(s) /\ SubSeq(s, Len(s) - Len(p) + 1, Len(s)) = p

AllDigits(s) == \A i \in 1..Len(s) : s[i] \in Digits

RECURSIVE SplitAcc(_, _, _, _)
SplitAcc(s, sep, cur, acc) ==
    IF s = <<>> THEN Append(acc, cur)
    ELSE IF Head(s) = sep
         THEN SplitAcc(Tail(s), sep, <<>>, Append(acc, cur))
         ELSE SplitAcc(Tail(s), sep, Append(cur, Head(s)), acc)

\* str.split(sep) for a one-character separator
split(s, sep) == SplitAcc(s, sep, <<>>, <<>>)

RECURSIVE DecimalValue(_)
DecimalValue(s) ==
    IF s = <<>> THEN 0
    ELSE 10 * DecimalValue(DropLast(s, 1)) + DigitVal(s[Len(s)])

RECURSIVE StripLeft(_)
StripLeft(s) == IF s # <<>> /\ Head(s) = " " THEN StripLeft(Tail(s)) ELSE s

RECURSIVE StripRight(_)
StripRight(s) ==
    IF s # <<>> /\ s[Len(s)] = " " THEN StripRight(DropLast(s, 1)) ELSE s

\* int(s): surrounding blanks and one sign are accepted, then decimal digits;
\* anything else is a ValueError (ok = FALSE).
int(s) ==
    LET t == StripRight(StripLeft(s))
        signed == t # <<>> /\ Head(t) \in {"+", "-"}
        body == IF signed THEN Tail(t) ELSE t
    IN  IF body # <<>> /\ AllDigits(body)
        THEN [ok |-> TRUE,
              val |-> IF signed /\ Head(t) = "-"
                      THEN 0 - DecimalValue(body) ELSE DecimalValue(body)]
        ELSE [ok |-> FALSE, val |-> 0]

RECURSIVE NatStr(_)
NatStr(n) ==
    IF n < 10 THEN <<DigitChar(n)>>
    ELSE Append(NatStr(n \div 10), DigitChar(n % 10))

\* str(n) as an f-string renders an int
str(n) == IF n < 0 THEN <<"-">> \o NatStr(0 - n) ELSE NatStr(n)

\* max(xs, default=0)
MaxOr0(S) == IF S = {} THEN 0 ELSE CHOOSE m \in S : \A x \in S : x <= m

----------------------------------------------------------------------------
(* Names offered by the export user interfaces                            *)

Maurice == <<"M","a","u","r","i","c","e">>
Mother_Golem == <<"M","o","t","h","e","r","_","G","o","l","e","m">>
Bird == <<"B","i","r","d">>
Test == <<"T","e","s","t">>
Szene002 == <<"S","z","e","n","e"," ","0","0","2">>
Scene001 == <<"S","c","e","n","e"," ","0","0","1">>
fbx == <<"f","b","x">>
FBX == <<"F","B","X">>

\* f"{character}_{scene}"
KeyName(character, scene) == character \o <<"_">> \o scene

\* f"{character}_{scene}_v{version}.fbx", generalised to the extension
FormatName(character, scene, version, ext) ==
    KeyName(character, scene) \o <<"_","v">> \o str(version) \o <<".">> \o ext

----------------------------------------------------------------------------
(* Directories                                                             *)

\* a directory on disk: absent, or present with a set of file names
NoDir == [exists |-> FALSE, files |-> {}]
DirOf(files) == [exists |-> TRUE, files |-> files]

\* os.listdir: the names of an existing directory, FileNotFoundError otherwise
listdir(dir) == [ok |-> dir.exists, names |-> dir.files]

\* the orders in which os.listdir may enumerate a set of names
RECURSIVE Enumerate(_)
Enumerate(S) ==
    IF S = {} THEN <<>>
    ELSE LET x == CHOOSE y \in S : TRUE IN <<x>> \o Enumerate(S \ {x})

\* one enumeration order for each name that os.listdir may yield first
Listings(S) ==
    IF S = {} THEN {<<>>} ELSE {<<x>> \o Enumerate(S \ {x}) : x \in S}

RECURSIVE Orderings(_)
Orderings(S) ==
    IF S = {} THEN {<<>>}
    ELSE UNION {{<<x>> \o q : q \in Orderings(S \ {x})} : x \in S}

----------------------------------------------------------------------------
(* Blender: export_animation_to_fbx.py                                     *)

\* lines 65-70, the version-extraction step: the versions one file contributes
BlenderParse(file) ==
    LET parts == split(file, "_")
    IN  IF /\ Len(parts) > 2
           /\ startswith(parts[3], <<"v">>)
           /\ int(Drop(parts[3], 1)).ok
        THEN {int(Drop(parts[3], 1)).val}
        ELSE {}

\* line 60 filter, then the extraction step
BlenderVersions(file, character, scene) ==
    IF startswith(file, KeyName(character, scene) \o <<"_","v">>)
    THEN BlenderParse(file) ELSE {}

get_next_version_Blender(dir, character, scene) ==
    IF ~listdir(dir).ok THEN [ok |-> FALSE, val |-> 0]
    ELSE [ok |-> TRUE,
          val |-> MaxOr0(UNION {BlenderVersions(f, character, scene) :
                                   f \in listdir(dir).names}) + 1]

\* mutant: the loop is missing, the name get_next_version gave is used
AvoidCollision_NoLoop(files, character, scene, version) == version

\* mutant: the loop steps over every other version
RECURSIVE AvoidCollision_StepTwo(_, _, _, _)
AvoidCollision_StepTwo(files, character, scene, version) ==
    IF FormatName(character, scene, version, fbx) \in files
    THEN AvoidCollision_StepTwo(files, character, scene, version + 2)
    ELSE version

\* Blender lines 102-106: while os.path.exists(export_file_path): version += 1
RECURSIVE AvoidCollision(_, _, _, _)
AvoidCollision(files, character, scene, version) ==
    IF FormatName(character, scene, version, fbx) \in files
    THEN AvoidCollision(files, character, scene, version + 1)
    ELSE version

\* the times the body of the loop of lines 103-106 runs
RECURSIVE LoopIterations(_, _, _, _)
LoopIterations(files, character, scene, version) ==
    IF FormatName(character, scene, version, fbx) \in files
    THEN 1 + LoopIterations(files, character, scene, version + 1)
    ELSE 0

----------------------------------------------------------------------------
(* Maya: export_animation_to_fbx.py                                        *)

\* lines 50-56, the version-extraction step
MayaParse(file) ==
    LET parts == split(file, "_")
        last == parts[Len(parts)]
        number == int(split(Drop(last, 1), ".")[1])
    IN  IF /\ Len(parts) > 1
           /\ startswith(last, <<"v">>)
           /\ number.ok
        THEN {number.val}
        ELSE {}

\* line 45 filter, then the extraction step
MayaVersions(file, base_name) ==
    IF startswith(file, base_name) /\ endswith(file, <<".">> \o fbx)
    THEN MayaParse(file) ELSE {}

\* mutant: the highest version is returned without the increment
get_next_version_Maya_NoIncrement(dir, base_name) ==
    IF ~listdir(dir).ok THEN [ok |-> FALSE, val |-> 0]
    ELSE [ok |-> TRUE,
          val |-> MaxOr0(UNION {MayaVersions(f, base_name) :
                                   f \in listdir(dir).names})]

get_next_version_Maya(dir, base_name) ==
    IF ~listdir(dir).ok THEN [ok |-> FALSE, val |-> 0]
    ELSE [ok |-> TRUE,
          val |-> MaxOr0(UNION {MayaVersions(f, base_name) :
                                   f \in listdir(dir).names}) + 1]

----------------------------------------------------------------------------
(* Unreal: import_fbx_animation.py                                         *)

\* end of the longest run of digits that starts right after position i
DigitRunEnd(s, i) ==
    LET ends == {j \in i..Len(s) : \A k \in (i + 1)..j : s[k] \in Digits}
    IN  CHOOSE j \in ends : \A e \in ends : e <= j

\* v(\d+)(?=\.\w+$) matches with its "v" at position i
VersionTokenAt(s, i) ==
    LET j == DigitRunEnd(s, i)
    IN  /\ s[i] = "v"
        /\ j > i
        /\ j + 2 <= Len(s)
        /\ s[j + 1] = "."
        /\ \A k \in (j + 2)..Len(s) : s[k] \in WordChars

extract_version(filename) ==
    LET hits == {i \in 1..Len(filename) : VersionTokenAt(filename, i)}
        first == CHOOSE i \in hits : \A h \in hits : i <= h
    IN  IF hits = {} THEN -1
        ELSE DecimalValue(SubSeq(filename, first + 1, DigitRunEnd(filename, first)))

\* None of find_latest_version; "if latest_file" is false for it
NoFile == <<>>

RECURSIVE LatestFrom(_, _, _)
LatestFrom(files, latest_file, highest_version) ==
    IF files = <<>> THEN latest_file
    ELSE LET version == extract_version(Head(files))
         IN  IF version > highest_version
             THEN LatestFrom(Tail(files), Head(files), version)
             ELSE LatestFrom(Tail(files), latest_file, highest_version)

\* mutant: every versioned file replaces the selection, whatever its version
RECURSIVE LastVersioned(_, _)
LastVersioned(files, latest_file) ==
    IF files = <<>> THEN latest_file
    ELSE IF extract_version(Head(files)) > -1
         THEN LastVersioned(Tail(files), Head(files))
         ELSE LastVersioned(Tail(files), latest_file)

find_latest_version_LastVersioned(files) == LastVersioned(files, NoFile)

find_latest_version(files) == LatestFrom(files, NoFile, -1)

\* [f for f in os.listdir(scene_path) if f.endswith(".fbx")]
animation_files(names) == {f \in names : endswith(f, <<".">> \o fbx)}

\* re.sub(r"_v\d+$", "", name): one trailing _v<digits> removed
StripVersionSuffix(name) ==
    LET cuts == {i \in 1..(Len(name) - 2) :
                    /\ name[i] = "_" /\ name[i + 1] = "v"
                    /\ \A k \in (i + 2)..Len(name) : name[k] \in Digits}
    IN  IF cuts = {} THEN name
        ELSE SubSeq(name, 1, (CHOOSE i \in cuts : \A c \in cuts : i <= c) - 1)

\* mutant: the existence check is made on the identity the import creates
unreal_asset_path_AnimIdentity(character, scene, latest_file) ==
    <<character, scene,
      <<"a","n","i","m","_">> \o StripVersionSuffix(DropLast(latest_file, 4))>>

\* line 62: f"{scene_unreal_path}/{latest_file[:-4]}"
unreal_asset_path(character, scene, latest_file) ==
    <<character, scene, DropLast(latest_file, 4)>>

\* lines 90-95 of import_fbx_to_unreal: the asset the import task creates
anim_ == <<"a","n","i","m","_">>
destination_name(animation_file) ==
    anim_ \o StripVersionSuffix(DropLast(animation_file, 4))
imported_asset(character, scene, animation_file) ==
    <<character, scene, destination_name(animation_file)>>

\* lines 98-102: the properties import_fbx_to_unreal sets on the FbxImportUI
FbxImportUI ==
    [import_as_skeletal |-> FALSE, import_materials |-> TRUE,
     import_textures |-> TRUE, import_mesh |-> TRUE]

\* lines 92-104: the AssetImportTask handed to import_asset_tasks
AssetImportTask(character, scene, animation_file) ==
    [filename |-> <<character, scene, animation_file>>,
     destination |-> imported_asset(character, scene, animation_file),
     replace_existing |-> TRUE,
     options |-> FbxImportUI]
NoTask == <<>>

\* what an import run did in one scene folder
NoPlan == [latest |-> NoFile, checked |-> <<>>, target |-> <<>>, issued |-> FALSE,
           task |-> NoTask]

----------------------------------------------------------------------------
(* Python dicts, in insertion order: sequences of <<key, value>>           *)

\* Python None, and the truth value of an optional string or enum
None == "None"
Truthy(v) == v # None /\ v # ""

Has(d, k) == \E i \in DOMAIN d : d[i][1] = k
Get(d, k) == IF Has(d, k) THEN d[CHOOSE i \in DOMAIN d : d[i][1] = k][2] ELSE None

\* d[k] = v
Put(d, k, v) ==
    IF Has(d, k)
    THEN [d EXCEPT ![CHOOSE i \in DOMAIN d : d[i][1] = k] = <<k, v>>]
    ELSE Append(d, <<k, v>>)

----------------------------------------------------------------------------
(* Maya: export_material_map.py                                            *)

\* create_ui line 121: the channels offered as check boxes
channels == <<"baseColor", "opacity", "normalCamera", "metalness", "specularRoughness">>

\* get_file: the texture bound to a channel of a material, None if unbound
get_file(files, material, channel) == files[material][channel]

\* the dict comprehension of lines 68-70
RECURSIVE FileMap(_, _, _)
FileMap(files, material, channel_list) ==
    IF channel_list = <<>> THEN <<>>
    ELSE <<<<Head(channel_list), get_file(files, material, Head(channel_list))>>>>
         \o FileMap(files, material, Tail(channel_list))

RECURSIVE ObjectMap(_, _, _, _, _)
ObjectMap(object_list, channel_list, scene, used_shader, acc) ==
    IF object_list = <<>> THEN acc
    ELSE LET obj == Head(object_list)
             material == scene.shader[obj]
         IN  IF material = None \/ material \in used_shader
             THEN ObjectMap(Tail(object_list), channel_list, scene, used_shader, acc)
             ELSE ObjectMap(Tail(object_list), channel_list, scene,
                            used_shader \cup {material},
                            Put(acc, obj, FileMap(scene.files, material, channel_list)))

get_object_to_material_map(object_list, channel_list, scene) ==
    ObjectMap(object_list, channel_list, scene, {}, <<>>)

\* the get_file calls the loop of lines 57-72 makes, as <<object, channel>>:
\* one per channel for an object whose first material is not in used_shader
RECURSIVE FileReads(_, _, _, _)
FileReads(object_list, channel_list, scene, used_shader) ==
    IF object_list = <<>> THEN <<>>
    ELSE LET obj == Head(object_list)
             material == scene.shader[obj]
         IN  IF material = None \/ material \in used_shader
             THEN FileReads(Tail(object_list), channel_list, scene, used_shader)
             ELSE [i \in DOMAIN channel_list |-> <<obj, channel_list[i]>>]
                  \o FileReads(Tail(object_list), channel_list, scene,
                               used_shader \cup {material})

\* the checked channels, in the order of the check boxes
RECURSIVE Checked(_, _)
Checked(channel_list, ticked) ==
    IF channel_list = <<>> THEN <<>>
    ELSE IF Head(channel_list) \in ticked
         THEN <<Head(channel_list)>> \o Checked(Tail(channel_list), ticked)
         ELSE Checked(Tail(channel_list), ticked)

----------------------------------------------------------------------------
(* Unreal: import_material_mapping.py                                      *)

\* mutant: the roughness entry is keyed by a name the exporter does not write
channel_remap_NoRoughness ==
    << <<"baseColor", "MP_BASE_COLOR">>,
       <<"opacity", "MP_OPACITY">>,
       <<"normalCamera", "MP_NORMAL">>,
       <<"metalness", "MP_METALLIC">>,
       <<"roughness", "MP_ROUGHNESS">> >>

\* start_script lines 242-248
channel_remap ==
    << <<"baseColor", "MP_BASE_COLOR">>,
       <<"opacity", "MP_OPACITY">>,
       <<"normalCamera", "MP_NORMAL">>,
       <<"metalness", "MP_METALLIC">>,
       <<"specularRoughness", "MP_ROUGHNESS">> >>

\* mutant: a channel without a remap entry is kept under its old name
RECURSIVE RemapOne_KeepUnmapped(_, _, _)
RemapOne_KeepUnmapped(chans, remap_dict, updated_channels) ==
    IF chans = <<>> THEN updated_channels
    ELSE RemapOne_KeepUnmapped(Tail(chans), remap_dict,
             Put(updated_channels,
                 IF Has(remap_dict, Head(chans)[1])
                 THEN Get(remap_dict, Head(chans)[1]) ELSE Head(chans)[1],
                 Head(chans)[2]))

\* the inner loop of remap_channels
RECURSIVE RemapOne(_, _, _)
RemapOne(chans, remap_dict, updated_channels) ==
    IF chans = <<>> THEN updated_channels
    ELSE LET new_channel == Get(remap_dict, Head(chans)[1])
         IN  IF Truthy(new_channel)
             THEN RemapOne(Tail(chans), remap_dict,
                           Put(updated_channels, new_channel, Head(chans)[2]))
             ELSE RemapOne(Tail(chans), remap_dict, updated_channels)

RECURSIVE RemapAll(_, _, _)
RemapAll(data, remap_dict, updated_data) ==
    IF data = <<>> THEN updated_data
    ELSE RemapAll(Tail(data), remap_dict,
                  Put(updated_data, Head(data)[1],
                      RemapOne(Head(data)[2], remap_dict, <<>>)))

remap_channels(data, remap_dict) == RemapAll(data, remap_dict, <<>>)

\* add_all_textures_to_material for one created material: the texture
\* imports attempted, in order.  imported: the attempts of the run (counted
\* from 1) for which import_texture returns a texture, which is then wired.
RECURSIVE TextureImports(_, _, _, _, _)
TextureImports(obj, material_map, imported, done, acc) ==
    IF material_map = <<>> THEN acc
    ELSE LET channel == Head(material_map)[1]
             origin == Head(material_map)[2]
         IN  IF Truthy(origin)
             THEN TextureImports(obj, Tail(material_map), imported, done,
                      Append(acc, [obj |-> obj, channel |-> channel,
                                   origin |-> origin,
                                   wired |-> (done + Len(acc) + 1) \in imported]))
             ELSE TextureImports(obj, Tail(material_map), imported, done, acc)

\* mutant: the "if origin" test is missing, every entry is imported
RECURSIVE TextureImportsAll(_, _, _, _, _)
TextureImportsAll(obj, material_map, imported, done, acc) ==
    IF material_map = <<>> THEN acc
    ELSE TextureImportsAll(obj, Tail(material_map), imported, done,
             Append(acc, [obj |-> obj, channel |-> Head(material_map)[1],
                          origin |-> Head(material_map)[2],
                          wired |-> (done + Len(acc) + 1) \in imported]))

add_all_textures_to_material_NoOriginCheck(obj, material_map, imported, done) ==
    TextureImportsAll(obj, material_map, imported, done, <<>>)

add_all_textures_to_material(obj, material_map, imported, done) ==
    TextureImports(obj, material_map, imported, done, <<>>)

\* the loop of start_script lines 254-258 over the remapped map.
\* made[obj]: create_material returns a material for the object.
RECURSIVE CreateLoop(_, _, _, _)
CreateLoop(mapped_data, made, imported, acc) ==
    IF mapped_data = <<>> THEN acc
    ELSE LET obj == Head(mapped_data)[1]
             next == [created |-> Append(acc.created, [obj |-> obj, ok |-> made[obj]]),
                      attempts |->
                          IF made[obj]
                          THEN acc.attempts \o
                               add_all_textures_to_material(obj, Head(mapped_data)[2],
                                   imported, Len(acc.attempts))
                          ELSE acc.attempts]
         IN  CreateLoop(Tail(mapped_data), made, imported, next)

----------------------------------------------------------------------------
(* Inputs                                                                  *)

\* largest version number written into an initial directory or formatted
MaxVersion == 12
\* most files an initial directory holds
MaxFiles == 4

\* (character, scene) pairs selectable in the Blender panel / the Maya window
BlenderKeys == {<<Maurice, Szene002>>, <<Mother_Golem, Test>>}
MayaKeys == {<<Maurice, Scene001>>}
Keys == BlenderKeys \cup MayaKeys

\* the scene directories of the animation tree of the pipeline specification
BlenderTreeKeys == {<<Maurice, Szene002>>}
MayaTreeKeys == {<<Maurice, Scene001>>}
TreeKeys == BlenderTreeKeys \cup MayaTreeKeys

\* names a scene directory may hold: exported versions of the key (with a gap
\* and a two-digit version), another key's export, and names without a
\* version token.
Pool(character, scene) ==
    { FormatName(character, scene, 1, fbx),
      FormatName(character, scene, 3, fbx),
      FormatName(character, scene, 9, fbx),
      FormatName(character, scene, 10, fbx),
      FormatName(Bird, Test, 10, fbx),
      KeyName(character, scene) \o <<".">> \o fbx,
      KeyName(character, scene) \o <<"_","v","X",".">> \o fbx,
      KeyName(character, scene) \o <<"_","v","2","_","o","l","d",".">> \o fbx }

DirInputs(character, scene) ==
    {NoDir} \cup {DirOf(F) : F \in {G \in SUBSET Pool(character, scene) :
                                        Cardinality(G) <= MaxFiles}}

\* directories for the collision loop: runs of consecutive versions of the
\* key, with or without the name get_next_version reads a version from
MaxRun == 4
LoopPool(character, scene) ==
    {FormatName(character, scene, n, fbx) : n \in 1..MaxRun}
    \cup {KeyName(character, scene) \o <<"_","v","2","_","o","l","d",".">> \o fbx}
LoopDirs(character, scene) == {DirOf(F) : F \in SUBSET LoopPool(character, scene)}

Extensions == {fbx, FBX}

\* material map documents handed to remap_channels: channels the remap
\* table knows and channels it does not, with a texture path or null
MapChannels == <<"baseColor", "emissionColor", "normalCamera", "displacement">>
MapPaths == {"tex/a.png", None}
RECURSIVE ChannelDicts(_)
ChannelDicts(names) ==
    IF names = <<>> THEN {<<>>}
    ELSE LET rest == ChannelDicts(Tail(names))
         IN  rest \cup {<<<<Head(names), p>>>> \o d : p \in MapPaths, d \in rest}
WallDicts ==
    {<<>>, << <<"displacement", "tex/w.png">> >>,
     << <<"specularRoughness", "tex/w.png">>, <<"emissionColor", None>> >>}
MapInputs ==
    {<<>>}
    \cup {<< <<"Door", d>> >> : d \in ChannelDicts(MapChannels)}
    \cup {<< <<"Door", d>>, <<"Wall", w>> >> :
             d \in ChannelDicts(MapChannels), w \in WallDicts}

\* the versions N of the files {key}_v{N}.fbx present in a set of names
KeyVersions(files, character, scene) ==
    {n \in 1..MaxVersion : FormatName(character, scene, n, fbx) \in files}

CodecInputs ==
    {[kind |-> "dir", character |-> k[1], scene |-> k[2], dir |-> d] :
        k \in Keys, d \in UNION {DirInputs(kk[1], kk[2]) : kk \in Keys}}
    \cup
    {[kind |-> "name", character |-> k[1], scene |-> k[2],
      version |-> v, ext |-> e] : k \in Keys, v \in 1..MaxVersion, e \in Extensions}
    \cup
    {[kind |-> "map", data |-> d] : d \in MapInputs}
    \cup
    {[kind |-> "loop", character |-> k[1], scene |-> k[2], dir |-> d] :
        k \in BlenderKeys, d \in UNION {LoopDirs(kk[1], kk[2]) : kk \in BlenderKeys}}

\* no export handler running
NoSession ==
    [tool |-> "none", key |-> <<>>, pc |-> "idle", absent |-> FALSE,
     raced |-> FALSE, version |-> 0, failed |-> "none", error |-> "none",
     returned |-> "none", reported |-> "none", count |-> 0]

\* no material map written, the Unreal material script not run
NoMap == [written |-> FALSE, data |-> <<>>, reads |-> <<>>]
NotApplied == [outcome |-> "none", reason |-> "none", names |-> <<>>,
               mapped |-> <<>>, created |-> <<>>, attempts |-> <<>>]
NoScene == [objects |-> <<>>, shader |-> <<>>, files |-> <<>>]

MaterialIdle ==
    /\ scene3d = NoScene
    /\ mapFile = NoMap
    /\ applied = NotApplied

\* the pipeline state of a session in which nothing was exported or imported
PipelineIdle ==
    /\ disk = [k \in TreeKeys |-> NoDir]
    /\ folders = {}
    /\ assets = {}
    /\ exports = <<>>
    /\ imports = [k \in TreeKeys |-> <<>>]
    /\ runs = 0
    /\ changed = FALSE
    /\ rerun = FALSE
    /\ plan = [k \in TreeKeys |-> NoPlan]

----------------------------------------------------------------------------
(* Codec specification: the version functions applied to drawn inputs      *)

CodecInit ==
    /\ arg \in {a \in CodecInputs :
                   /\ a.kind = "dir" => a.dir \in DirInputs(a.character, a.scene)
                   /\ a.kind = "loop" => a.dir \in LoopDirs(a.character, a.scene)}
    /\ op = "none"
    /\ session = NoSession
    /\ ret = "none"
    /\ PipelineIdle
    /\ MaterialIdle

ApplyNextVersionBlender ==
    /\ op = "none" /\ arg.kind = "dir"
    /\ <<arg.character, arg.scene>> \in BlenderKeys
    /\ op' = "get_next_version_Blender"
    /\ ret' = get_next_version_Blender(arg.dir, arg.character, arg.scene)
    /\ UNCHANGED <<arg, pipelineVars, materialVars, session>>

ApplyNextVersionMaya ==
    /\ op = "none" /\ arg.kind = "dir"
    /\ <<arg.character, arg.scene>> \in MayaKeys
    /\ op' = "get_next_version_Maya"
    /\ ret' = get_next_version_Maya(arg.dir, KeyName(arg.character, arg.scene))
    /\ UNCHANGED <<arg, pipelineVars, materialVars, session>>

ApplyFindLatest ==
    /\ op = "none" /\ arg.kind = "dir" /\ arg.dir.exists
    /\ \E q \in Orderings(animation_files(arg.dir.files)) :
          ret' = [files |-> q, latest |-> find_latest_version(q)]
    /\ op' = "find_latest_version"
    /\ UNCHANGED <<arg, pipelineVars, materialVars, session>>

\* the three parsers applied to the name the exporters format
ApplyParseFormatted ==
    /\ op = "none" /\ arg.kind = "name"
    /\ LET name == FormatName(arg.character, arg.scene, arg.version, arg.ext)
       IN  ret' = [name |-> name,
                   blender |-> BlenderParse(name),
                   maya |-> MayaParse(name),
                   unreal |-> extract_version(name)]
    /\ op' = "parse"
    /\ UNCHANGED <<arg, pipelineVars, materialVars, session>>

\* Blender execute lines 96-106 on an existing directory: the version of
\* get_next_version, then the collision loop
ApplyCollisionLoop ==
    /\ op = "none" /\ arg.kind = "loop"
    /\ LET start == get_next_version_Blender(arg.dir, arg.character, arg.scene).val
       IN  ret' = [start |-> start,
                   version |-> AvoidCollision(arg.dir.files, arg.character,
                                              arg.scene, start),
                   iterations |-> LoopIterations(arg.dir.files, arg.character,
                                                 arg.scene, start)]
    /\ op' = "collision_loop"
    /\ UNCHANGED <<arg, pipelineVars, materialVars, session>>

\* remap_channels on a map document, with the table of start_script
ApplyRemapChannels ==
    /\ op = "none" /\ arg.kind = "map"
    /\ ret' = remap_channels(arg.data, channel_remap)
    /\ op' = "remap_channels"
    /\ UNCHANGED <<arg, pipelineVars, materialVars, session>>

CodecNext ==
    \/ ApplyRemapChannels
    \/ ApplyCollisionLoop
    \/ ApplyNextVersionBlender
    \/ ApplyNextVersionMaya
    \/ ApplyFindLatest
    \/ ApplyParseFormatted

SpecCodec == CodecInit /\ [][CodecNext]_vars

----------------------------------------------------------------------------
(* Claims on the version functions (SpecCodec)                             *)

NextVersionOps == {"get_next_version_Blender", "get_next_version_Maya"}

\* C3: for every directory content and key, get_next_version (Blender and
\* Maya) returns max(V) + 1, V the versions of the files {key}_v{N}.fbx in the
\* directory, and 1 when V is empty.
C3_NextVersionIsMaxPlusOne ==
    (op \in NextVersionOps /\ arg.dir.exists) =>
        /\ ret.ok
        /\ ret.val = MaxOr0(KeyVersions(arg.dir.files, arg.character, arg.scene)) + 1

\* C4: parsing the formatted name {key}_v{v}.{ext} yields exactly v in each of
\* the three parsers.
C4_RoundTrip ==
    op = "parse" =>
        /\ ret.unreal = arg.version
        /\ ret.blender = {arg.version}
        /\ ret.maya = {arg.version}

\* C5: over a directory mixing the key's versioned files with other files,
\* find_latest_version returns the key's file of highest version, never a
\* file that is not a versioned file of the key.
C5_LatestIsHighestOfKey ==
    (/\ op = "find_latest_version"
     /\ KeyVersions(arg.dir.files, arg.character, arg.scene) # {}) =>
        ret.latest = FormatName(arg.character, arg.scene,
                        MaxOr0(KeyVersions(arg.dir.files, arg.character, arg.scene)),
                        fbx)

\* C18: the collision loop of the Blender export terminates: from the version
\* of get_next_version it adds one per iteration, stops at the first version
\* whose file does not exist, after at most as many iterations as the
\* directory has files.
C18_CollisionLoopStopsAtFirstFree ==
    op = "collision_loop" =>
        /\ ret.version = ret.start + ret.iterations
        /\ FormatName(arg.character, arg.scene, ret.version, fbx) \notin arg.dir.files
        /\ \A n \in ret.start..(ret.version - 1) :
              FormatName(arg.character, arg.scene, n, fbx) \in arg.dir.files
        /\ ret.iterations <= Cardinality(arg.dir.files)

\* the loop ran as many times as the directory has files, more than once,
\* and once from a version other than 1
C18_LoopRanOverWholeDirectory ==
    /\ op = "collision_loop"
    /\ ret.iterations >= 2
    /\ \/ ret.iterations = Cardinality(arg.dir.files)
       \/ ret.start > 1

\* the channel entries of a dict that have an entry in the remap table
Remappable(chans) == {j \in DOMAIN chans : Has(channel_remap, chans[j][1])}

\* C20: remap_channels does not fail on a channel without a remap entry: the
\* result has the object keys of the input, and for each object exactly the
\* channels with a remap entry, renamed, their texture paths unchanged; a
\* channel without an entry is dropped and the others are kept.
C20_RemapDropsOnlyUnmapped ==
    op = "remap_channels" =>
        /\ Len(ret) = Len(arg.data)
        /\ \A i \in DOMAIN arg.data :
              /\ ret[i][1] = arg.data[i][1]
              /\ Len(ret[i][2]) = Cardinality(Remappable(arg.data[i][2]))
              /\ {ret[i][2][j] : j \in DOMAIN ret[i][2]} =
                     {<<Get(channel_remap, arg.data[i][2][j][1]), arg.data[i][2][j][2]>> :
                         j \in Remappable(arg.data[i][2])}

\* an object with a channel the table has and a channel it has not: the
\* first is kept, the second dropped
C20_UnmappedChannelDropped ==
    /\ op = "remap_channels"
    /\ \E i \in DOMAIN arg.data :
          /\ Has(arg.data[i][2], "emissionColor")
          /\ Has(arg.data[i][2], "baseColor")
          /\ Get(arg.data[i][2], "baseColor") # None
          /\ Has(ret[i][2], "MP_BASE_COLOR")
          /\ Len(ret[i][2]) < Len(arg.data[i][2])

\* a name with a token v<digits> immediately before its extension
WellFormed(name) ==
    \E i, j \in 1..Len(name) :
        /\ name[i] = "v"
        /\ i + 1 < j
        /\ \A k \in (i + 1)..(j - 1) : name[k] \in Digits
        /\ name[j] = "."
        /\ j < Len(name)
        /\ \A k \in (j + 1)..Len(name) : name[k] \in WordChars

\* C21: version parsing raises nothing on a malformed name: a file without a
\* v<digits> token immediately before the extension is skipped by both
\* get_next_version functions and does not change their result, and
\* find_latest_version never returns it.
C21_MalformedNamesChangeNothing ==
    LET kept == DirOf({f \in arg.dir.files : WellFormed(f)})
    IN  /\ (op = "get_next_version_Blender" /\ arg.dir.exists) =>
               /\ ret.ok
               /\ ret.val = get_next_version_Blender(kept, arg.character, arg.scene).val
        /\ (op = "get_next_version_Maya" /\ arg.dir.exists) =>
               /\ ret.ok
               /\ ret.val = get_next_version_Maya(kept,
                                KeyName(arg.character, arg.scene)).val
        /\ op = "find_latest_version" =>
               (ret.latest # NoFile => WellFormed(ret.latest))

\* C7: get_next_version returns 1, raising nothing, for an empty directory
\* and for a directory that does not exist.
C7_MissingOrEmptyDirGivesOne ==
    (op \in NextVersionOps /\ (~arg.dir.exists \/ arg.dir.files = {})) =>
        /\ ret.ok
        /\ ret.val = 1

----------------------------------------------------------------------------
(* Pipeline specification: exports and import runs on one animation tree   *)

\* files written plus import runs in one behaviour
MaxSteps == 4

Steps == runs + Len(exports)

\* what a scene directory holds when the session starts
SeedDirs(character, scene) ==
    { NoDir,
      DirOf({}),
      DirOf({FormatName(character, scene, 1, fbx),
             FormatName(character, scene, 3, fbx)}),
      DirOf({FormatName(character, scene, 3, fbx),
             FormatName(Bird, Test, 10, fbx)}),
      DirOf({FormatName(character, scene, 9, fbx),
             FormatName(character, scene, 10, fbx)}),
      DirOf({FormatName(character, scene, 1, fbx),
             KeyName(character, scene) \o <<"_","v","X",".">> \o fbx}),
      DirOf({FormatName(character, scene, 1, fbx),
             KeyName(character, scene) \o <<"_","v","2","_","o","l","d",".">> \o fbx}) }

Init ==
    /\ arg = "none" /\ op = "none" /\ ret = "none"
    /\ session = NoSession
    /\ MaterialIdle
    /\ disk \in {d \in [TreeKeys -> UNION {SeedDirs(k[1], k[2]) : k \in TreeKeys}] :
                    \A k \in TreeKeys : d[k] \in SeedDirs(k[1], k[2])}
    /\ folders = {}
    /\ assets = {}
    /\ exports = <<>>
    /\ imports = [k \in TreeKeys |-> <<>>]
    /\ runs = 0
    /\ changed = FALSE
    /\ rerun = FALSE
    /\ plan = [k \in TreeKeys |-> NoPlan]

\* the directory after "create it if it is absent"
Ensured(dir) == IF dir.exists THEN dir ELSE DirOf({})

\* the version execute settles on: get_next_version, then the collision loop
BlenderVersion(dir, character, scene) ==
    AvoidCollision(dir.files, character, scene,
                   get_next_version_Blender(dir, character, scene).val)

\* the file system and the export log after the backend exporter ran
Written(k, dir, version, name, written) ==
    /\ disk' = [disk EXCEPT ![k] =
                   IF written THEN DirOf(dir.files \cup {name}) ELSE dir]
    /\ exports' = IF written
                  THEN Append(exports, [key |-> k, version |-> version,
                                        fresh |-> name \notin dir.files])
                  ELSE exports
    /\ changed' = (changed \/ disk' # disk)

\* Blender ExportToFBXOperator.execute.  made: os.makedirs succeeds when the
\* directory is absent (it raises otherwise and nothing is written); written:
\* bpy.ops.export_scene.fbx writes the file (it raises otherwise, and execute
\* ends with the exception).
BlenderExport(character, scene, made, written) ==
    LET k == <<character, scene>>
        dir == Ensured(disk[k])
        version == BlenderVersion(dir, character, scene)
        name == FormatName(character, scene, version, fbx)
    IN  /\ Steps < MaxSteps
        /\ IF ~disk[k].exists /\ ~made
           THEN UNCHANGED <<disk, exports, changed>>
           ELSE Written(k, dir, version, name, written)
        /\ UNCHANGED <<codecVars, materialVars, folders, assets, imports, runs,
                       rerun, plan, session>>

\* the version on_export_clicked assigns
MayaVersion(dir, character, scene) ==
    get_next_version_Maya(dir, KeyName(character, scene)).val

\* Maya on_export_clicked followed by export_fbx.  made: os.makedirs
\* succeeds when the directory is absent (OSError is an early return);
\* written: exportSelected writes full_path, replacing a file already there
\* (its exception is caught and printed).
MayaExport(character, scene, made, written) ==
    LET k == <<character, scene>>
        dir == Ensured(disk[k])
        version == MayaVersion(dir, character, scene)
        name == FormatName(character, scene, version, fbx)
    IN  /\ Steps < MaxSteps
        /\ IF ~disk[k].exists /\ ~made
           THEN UNCHANGED <<disk, exports, changed>>
           ELSE Written(k, dir, version, name, written)
        /\ UNCHANGED <<codecVars, materialVars, folders, assets, imports, runs,
                       rerun, plan, session>>

\* the files find_latest_version can return for a directory, over the orders
\* in which os.listdir may enumerate it
LatestChoices(names) ==
    {find_latest_version(q) : q \in Listings(animation_files(names))}

\* lines 58-66 for one scene folder, latest_file already selected
ScenePlan(character, scene, latest_file, db) ==
    IF latest_file = NoFile THEN NoPlan
    ELSE [latest |-> latest_file,
          checked |-> unreal_asset_path(character, scene, latest_file),
          target |-> imported_asset(character, scene, latest_file),
          issued |-> unreal_asset_path(character, scene, latest_file) \notin db,
          task |-> IF unreal_asset_path(character, scene, latest_file) \notin db
                   THEN AssetImportTask(character, scene, latest_file)
                   ELSE NoTask]

\* Unreal create_unreal_folders over the whole tree, import tasks executed
ImportRun ==
    /\ Steps < MaxSteps
    /\ LET choices == [k \in TreeKeys |-> LatestChoices(disk[k].files)]
       IN  \E latest \in {l \in [TreeKeys -> UNION {choices[k] : k \in TreeKeys}] :
                              \A k \in TreeKeys : l[k] \in choices[k]} :
             LET p == [k \in TreeKeys |->
                         IF disk[k].exists
                         THEN ScenePlan(k[1], k[2], latest[k], assets)
                         ELSE NoPlan]
             IN  /\ plan' = p
                 /\ assets' = assets \cup
                                {p[k].target : k \in {j \in TreeKeys : p[j].issued}}
                 /\ imports' = [k \in TreeKeys |->
                                  IF p[k].issued
                                  THEN Append(imports[k], extract_version(p[k].latest))
                                  ELSE imports[k]]
    /\ folders' = folders \cup {<<k[1]>> : k \in {j \in TreeKeys : disk[j].exists}}
                          \cup {<<k[1], k[2]>> : k \in {j \in TreeKeys : disk[j].exists}}
    /\ runs' = runs + 1
    /\ rerun' = (runs >= 1 /\ ~changed)
    /\ changed' = FALSE
    /\ UNCHANGED <<codecVars, materialVars, disk, exports, session>>

Next ==
    \/ \E k \in BlenderTreeKeys, made, written \in BOOLEAN :
          BlenderExport(k[1], k[2], made, written)
    \/ \E k \in MayaTreeKeys, made, written \in BOOLEAN :
          MayaExport(k[1], k[2], made, written)
    \/ ImportRun

Spec == Init /\ [][Next]_vars

----------------------------------------------------------------------------
(* Export specification: one export handler at a time, statement by        *)
(* statement, while another process uses the same shared path              *)

\* exports started in one behaviour
MaxSessions == 2

exportFrame == <<codecVars, materialVars, folders, assets, exports, imports,
                 runs, changed, rerun, plan>>

ExportInit ==
    /\ arg = "none" /\ op = "none" /\ ret = "none"
    /\ MaterialIdle
    /\ disk \in {d \in [TreeKeys -> UNION {SeedDirs(k[1], k[2]) : k \in TreeKeys}] :
                    \A k \in TreeKeys : d[k] \in SeedDirs(k[1], k[2])}
    /\ folders = {}
    /\ assets = {}
    /\ exports = <<>>
    /\ imports = [k \in TreeKeys |-> <<>>]
    /\ runs = 0
    /\ changed = FALSE
    /\ rerun = FALSE
    /\ plan = [k \in TreeKeys |-> NoPlan]
    /\ session = NoSession

\* another process creates base/character/scene
OtherCreates(k) ==
    /\ ~disk[k].exists
    /\ disk' = [disk EXCEPT ![k] = DirOf({})]
    /\ UNCHANGED <<exportFrame, session>>

\* the handler ends: its exception, or its return value
Ends(failed, error, returned, reported) ==
    session' = [session EXCEPT !.pc = "done", !.failed = failed, !.error = error,
                               !.returned = returned, !.reported = reported]

\* Blender execute lines 91-92: the path is built and os.path.exists is read
BlenderCheck(k) ==
    /\ session.pc \in {"idle", "done"}
    /\ session.count < MaxSessions
    /\ session' = [NoSession EXCEPT !.tool = "Blender", !.key = k, !.pc = "checked",
                                    !.absent = ~disk[k].exists,
                                    !.count = session.count + 1]
    /\ UNCHANGED <<exportFrame, disk>>

\* Blender execute line 93: os.makedirs(export_path), run when the check read
\* "absent".  It raises FileExistsError when the directory is there by now,
\* and OSError when it cannot be made; execute catches neither.
BlenderMakedirs(made) ==
    /\ session.tool = "Blender" /\ session.pc = "checked"
    /\ LET k == session.key
       IN  IF ~session.absent
           THEN /\ session' = [session EXCEPT !.pc = "ensured"]
                /\ UNCHANGED disk
           ELSE IF disk[k].exists
           THEN /\ session' = [session EXCEPT !.pc = "done", !.raced = TRUE,
                                  !.failed = "DirectoryCreationFailed",
                                  !.error = "FileExistsError"]
                /\ UNCHANGED disk
           ELSE IF made
           THEN /\ session' = [session EXCEPT !.pc = "ensured"]
                /\ disk' = [disk EXCEPT ![k] = DirOf({})]
           ELSE /\ Ends("DirectoryCreationFailed", "OSError", "none", "none")
                /\ UNCHANGED disk
    /\ UNCHANGED exportFrame

\* Blender execute lines 96-106: get_next_version and the collision loop
BlenderAssign ==
    /\ session.tool = "Blender" /\ session.pc = "ensured"
    /\ session' = [session EXCEPT !.pc = "named",
                      !.version = BlenderVersion(disk[session.key],
                                      session.key[1], session.key[2])]
    /\ UNCHANGED <<exportFrame, disk>>

\* Blender execute lines 109-128: the exporter writes the file, the success
\* report is made and {'FINISHED'} returned; or the exporter raises
BlenderWrite(written) ==
    /\ session.tool = "Blender" /\ session.pc = "named"
    /\ LET k == session.key
           name == FormatName(k[1], k[2], session.version, fbx)
       IN  IF written
           THEN /\ disk' = [disk EXCEPT ![k] = DirOf(disk[k].files \cup {name})]
                /\ Ends("none", "none", "FINISHED", "success")
           ELSE /\ UNCHANGED disk
                /\ Ends("BackendExportFailed", "RuntimeError", "none", "none")
    /\ UNCHANGED exportFrame

\* Maya on_export_clicked lines 100-108: the selection is read, the path built
MayaClick(k) ==
    /\ session.pc \in {"idle", "done"}
    /\ session.count < MaxSessions
    /\ session' = [NoSession EXCEPT !.tool = "Maya", !.key = k, !.pc = "checked",
                                    !.absent = ~disk[k].exists,
                                    !.count = session.count + 1]
    /\ UNCHANGED <<exportFrame, disk>>

\* Maya on_export_clicked lines 111-115: os.makedirs(export_path,
\* exist_ok=True); an OSError is printed and the handler returns None
MayaMakedirs(made) ==
    /\ session.tool = "Maya" /\ session.pc = "checked"
    /\ LET k == session.key
       IN  IF disk[k].exists
           THEN /\ session' = [session EXCEPT !.pc = "ensured",
                                              !.raced = session.absent]
                /\ UNCHANGED disk
           ELSE IF made
           THEN /\ session' = [session EXCEPT !.pc = "ensured"]
                /\ disk' = [disk EXCEPT ![k] = DirOf({})]
           ELSE /\ Ends("DirectoryCreationFailed", "none", None, "none")
                /\ UNCHANGED disk
    /\ UNCHANGED exportFrame

\* Maya on_export_clicked lines 118-119: get_next_version and the file name
MayaAssign ==
    /\ session.tool = "Maya" /\ session.pc = "ensured"
    /\ session' = [session EXCEPT !.pc = "named",
                      !.version = MayaVersion(disk[session.key],
                                      session.key[1], session.key[2])]
    /\ UNCHANGED <<exportFrame, disk>>

\* Maya export_fbx, called at line 122: the directory is there (lines 15-16
\* make nothing), exportSelected writes the file and the success line is
\* printed, or its exception is caught and printed; both ways export_fbx and
\* on_export_clicked return None
MayaWrite(written) ==
    /\ session.tool = "Maya" /\ session.pc = "named"
    /\ LET k == session.key
           name == FormatName(k[1], k[2], session.version, fbx)
       IN  IF written
           THEN /\ disk' = [disk EXCEPT ![k] = DirOf(disk[k].files \cup {name})]
                /\ Ends("none", "none", None, "success")
           ELSE /\ UNCHANGED disk
                /\ Ends("BackendExportFailed", "none", None, "none")
    /\ UNCHANGED exportFrame

\* Maya MyWidget.clicked_export_button.  selected: a scene and a character
\* are chosen (a warning and an early return otherwise).  Line 75 calls
\* export.execute, which export_animation_to_fbx does not define: the
\* AttributeError leaves the handler before either message box.
ClickedExportButton(selected) ==
    /\ session.pc \in {"idle", "done"}
    /\ session.count < MaxSessions
    /\ session' = [NoSession EXCEPT !.tool = "MayaInterface", !.pc = "done",
                      !.error = IF selected THEN "AttributeError" ELSE "none",
                      !.returned = IF selected THEN "none" ELSE None,
                      !.reported = IF selected THEN "none" ELSE "warning",
                      !.count = session.count + 1]
    /\ UNCHANGED <<exportFrame, disk>>

ExportNext ==
    \/ \E k \in TreeKeys : OtherCreates(k)
    \/ \E k \in BlenderTreeKeys : BlenderCheck(k)
    \/ \E made \in BOOLEAN : BlenderMakedirs(made)
    \/ BlenderAssign
    \/ \E written \in BOOLEAN : BlenderWrite(written)
    \/ \E k \in MayaTreeKeys : MayaClick(k)
    \/ \E made \in BOOLEAN : MayaMakedirs(made)
    \/ MayaAssign
    \/ \E written \in BOOLEAN : MayaWrite(written)
    \/ \E selected \in BOOLEAN : ClickedExportButton(selected)

SpecExport == ExportInit /\ [][ExportNext]_vars

----------------------------------------------------------------------------
(* Claims on the export handlers (SpecExport)                              *)

\* what a handler returns to its caller when the export succeeded
ReturnOnSuccess(tool) == IF tool = "Blender" THEN "FINISHED" ELSE None

\* the caller can tell the failure: an exception reached it, or the value
\* returned is not the one returned on success
Signalled ==
    \/ session.error # "none"
    \/ session.returned # ReturnOnSuccess(session.tool)

\* C13: when directory creation or the backend export fails, the export
\* signals a failure to its caller and no success result is shown.
C13_FailureIsSignalled ==
    (session.pc = "done" /\ session.failed # "none") =>
        /\ Signalled
        /\ session.reported # "success"

\* C14: when another process creates the export directory between the
\* export's existence check and its creation call, the export does not fail
\* with an "already exists" error and goes on to version assignment.
C14_ConcurrentCreatorTolerated ==
    session.raced =>
        /\ session.error # "FileExistsError"
        /\ session.pc \in {"ensured", "named", "done"}
        /\ session.pc = "done" => session.failed # "DirectoryCreationFailed"

----------------------------------------------------------------------------
(* Material specification: the map exported from Maya, applied in Unreal   *)

Objects == <<"Door", "Wall">>
Materials == {"doorMat", "wallMat"}
ChannelSet == {channels[i] : i \in DOMAIN channels}

Unbound == [c \in ChannelSet |-> None]

\* the file nodes of the two materials: unbound channels, bound textures,
\* and file nodes whose fileTextureName is empty
DoorFiles ==
    { [Unbound EXCEPT !["baseColor"] = "tex/door_c.png"],
      [Unbound EXCEPT !["baseColor"] = "tex/door_c.png",
                      !["normalCamera"] = "tex/door_n.png",
                      !["opacity"] = ""] }
WallFiles ==
    { Unbound,
      [Unbound EXCEPT !["baseColor"] = "tex/wall_c.png",
                      !["specularRoughness"] = "tex/wall_r.png",
                      !["metalness"] = ""] }

Scenes ==
    {[objects |-> o, shader |-> s, files |-> [doorMat |-> d, wallMat |-> w]] :
        o \in {<<>>, Objects},
        s \in [{Objects[i] : i \in DOMAIN Objects} -> Materials \cup {None}],
        d \in DoorFiles, w \in WallFiles}

MaterialInit ==
    /\ arg = "none" /\ op = "none" /\ ret = "none"
    /\ session = NoSession
    /\ PipelineIdle
    /\ scene3d \in Scenes
    /\ mapFile = NoMap
    /\ applied = NotApplied

\* Maya export_data.  ticked: the checked channel boxes; path_given: the
\* output path field is not empty.  The three early returns write nothing.
ExportData(ticked, path_given) ==
    /\ applied = NotApplied      \* the map is exported before it is applied
    /\ IF scene3d.objects = <<>> \/ Checked(channels, ticked) = <<>> \/ ~path_given
       THEN UNCHANGED mapFile
       ELSE mapFile' =
                [written |-> TRUE,
                 data |-> get_object_to_material_map(scene3d.objects,
                              Checked(channels, ticked), scene3d),
                 reads |-> FileReads(scene3d.objects,
                              Checked(channels, ticked), scene3d, {})]
    /\ UNCHANGED <<codecVars, pipelineVars, scene3d, applied, session>>

\* the keys of a dict
Keys_(d) == {d[i][1] : i \in DOMAIN d}

\* the channel entries of a map with a texture path that counts as present
RECURSIVE PresentCount(_)
PresentCount(data) ==
    IF data = <<>> THEN 0
    ELSE Cardinality({i \in DOMAIN Head(data)[2] : Truthy(Head(data)[2][i][2])})
         + PresentCount(Tail(data))

AssetName(obj) == "M_" \o obj

\* the loop of start_script run on the remapped map
Applied(mapped_data, made, imported) ==
    LET did == CreateLoop(mapped_data, made, imported,
                          [created |-> <<>>, attempts |-> <<>>])
    IN  [outcome |-> "done", reason |-> "none", names |-> <<>>,
         mapped |-> mapped_data,
         created |-> did.created, attempts |-> did.attempts]

\* the entries of a map before the first object that was given no name
RECURSIVE NamedPrefix(_, _)
NamedPrefix(data, names) ==
    IF data = <<>> \/ ~Truthy(names[Head(data)[1]]) THEN <<>>
    ELSE <<Head(data)>> \o NamedPrefix(Tail(data), names)

\* mutant: the name of an object is asked for in the creation loop, just
\* before its material is created
StartScript_NameAskedInLoop(proceed, folder, picked, names) ==
    /\ IF ~proceed THEN applied' = [NotApplied EXCEPT !.outcome = "cancelled"]
       ELSE IF ~folder
            THEN applied' = [NotApplied EXCEPT !.outcome = "aborted",
                                               !.reason = "NoFolderSelected"]
       ELSE IF ~picked THEN applied' = [NotApplied EXCEPT !.outcome = "error"]
       ELSE \E made \in [Keys_(mapFile.data) -> BOOLEAN],
               imported \in SUBSET (1..PresentCount(mapFile.data)) :
               applied' =
                   [Applied(remap_channels(NamedPrefix(mapFile.data, names),
                                           channel_remap), made, imported)
                    EXCEPT !.names = names,
                           !.outcome =
                               IF \E obj \in Keys_(mapFile.data) : ~Truthy(names[obj])
                               THEN "aborted" ELSE "done",
                           !.reason =
                               IF \E obj \in Keys_(mapFile.data) : ~Truthy(names[obj])
                               THEN "AssetNameNotProvided" ELSE "none"]
    /\ UNCHANGED <<codecVars, pipelineVars, scene3d, mapFile, session>>

\* Unreal start_script.  proceed: the start dialog is confirmed; folder: a
\* content folder is selected; picked: a JSON file is chosen in the file
\* dialog; names: the asset name typed for each object ("" when the prompt
\* is cancelled); made, imported: the outcomes of create_material (per
\* object) and import_texture (per attempt).
StartScript(proceed, folder, picked, names) ==
    /\ IF ~proceed THEN applied' = [NotApplied EXCEPT !.outcome = "cancelled"]
       ELSE IF ~folder
            THEN applied' = [NotApplied EXCEPT !.outcome = "aborted",
                                               !.reason = "NoFolderSelected"]
       ELSE IF ~picked THEN applied' = [NotApplied EXCEPT !.outcome = "error"]
       ELSE IF \E obj \in Keys_(mapFile.data) : ~Truthy(names[obj])
            THEN applied' = [NotApplied EXCEPT !.outcome = "aborted",
                                               !.reason = "AssetNameNotProvided",
                                               !.names = names]
       ELSE \E made \in [Keys_(mapFile.data) -> BOOLEAN],
               imported \in SUBSET (1..PresentCount(mapFile.data)) :
               applied' = [Applied(remap_channels(mapFile.data, channel_remap),
                                   made, imported) EXCEPT !.names = names]
    /\ UNCHANGED <<codecVars, pipelineVars, scene3d, mapFile, session>>

MaterialNext ==
    \/ \E ticked \in SUBSET ChannelSet, path_given \in BOOLEAN :
          ExportData(ticked, path_given)
    \/ \E proceed, folder \in BOOLEAN, given \in SUBSET Keys_(mapFile.data) :
          \E picked \in {p \in BOOLEAN : p => mapFile.written} :
             StartScript(proceed, folder, picked,
                 [obj \in Keys_(mapFile.data) |->
                     IF obj \in given THEN AssetName(obj) ELSE ""])

SpecMaterial == MaterialInit /\ [][MaterialNext]_vars

----------------------------------------------------------------------------
(* Claims on the material map (SpecMaterial)                               *)

\* a texture path counts as present when it is not null and, if nonEmpty
\* is asked for, not the empty string either
Present(path, nonEmpty) == path # None /\ (nonEmpty => path # "")

\* read off the JSON document: the imports expected for one object entry
RECURSIVE ExpectedOf(_, _, _)
ExpectedOf(obj, chans, nonEmpty) ==
    IF chans = <<>> THEN <<>>
    ELSE IF Present(Head(chans)[2], nonEmpty) /\ Has(channel_remap, Head(chans)[1])
         THEN <<[obj |-> obj, channel |-> Get(channel_remap, Head(chans)[1]),
                 origin |-> Head(chans)[2]]>> \o ExpectedOf(obj, Tail(chans), nonEmpty)
         ELSE ExpectedOf(obj, Tail(chans), nonEmpty)

\* ... and for the objects whose material was created
RECURSIVE Expected(_, _, _)
Expected(data, createdOk, nonEmpty) ==
    IF data = <<>> THEN <<>>
    ELSE (IF Head(data)[1] \in createdOk
          THEN ExpectedOf(Head(data)[1], Head(data)[2], nonEmpty) ELSE <<>>)
         \o Expected(Tail(data), createdOk, nonEmpty)

CreatedOk == {applied.created[i].obj : i \in {j \in DOMAIN applied.created :
                                                  applied.created[j].ok}}

Attempted ==
    [i \in DOMAIN applied.attempts |->
        [obj |-> applied.attempts[i].obj, channel |-> applied.attempts[i].channel,
         origin |-> applied.attempts[i].origin]]

\* C9 as stated: applying a map attempts one texture import for each channel
\* entry with a non-null path and a remap entry, and none for a null entry.
C9_OneImportPerNonNullEntry ==
    applied.outcome = "done" => Attempted = Expected(mapFile.data, CreatedOk, FALSE)

\* C9 as amended: for every object whose material was created, one texture
\* import is attempted for each channel entry whose path is neither null
\* nor empty and whose channel has a remap entry; none for a null or empty
\* entry, which does not fail the run.
C9_OneImportPerNonEmptyEntry ==
    applied.outcome = "done" => Attempted = Expected(mapFile.data, CreatedOk, TRUE)

\* {"Door": {"baseColor": "tex/door_c.png", "normalCamera": null}} applied:
\* one import, for the base colour
C9_DoorMapApplied ==
    /\ applied.outcome = "done"
    /\ mapFile.data = << <<"Door", << <<"baseColor", "tex/door_c.png">>,
                                      <<"normalCamera", None>> >> >> >>
    /\ Attempted = <<[obj |-> "Door", channel |-> "MP_BASE_COLOR",
                     origin |-> "tex/door_c.png"]>>

\* C19: when the operator gives no asset name for one object of the map, the
\* applier aborts before any change of the asset database: no material is
\* created and no texture imported in that run.
C19_MissingNameCreatesNothing ==
    (\E obj \in DOMAIN applied.names : ~Truthy(applied.names[obj])) =>
        /\ applied.outcome = "aborted"
        /\ applied.reason = "AssetNameNotProvided"
        /\ applied.created = <<>>
        /\ applied.attempts = <<>>

\* a map of two objects, the first given a name and the second not
C19_SecondNameMissing ==
    /\ Len(mapFile.data) = 2
    /\ DOMAIN applied.names = Keys_(mapFile.data)
    /\ Truthy(applied.names[mapFile.data[1][1]])
    /\ ~Truthy(applied.names[mapFile.data[2][1]])
    /\ PresentCount(mapFile.data) >= 1
    /\ applied.outcome = "aborted"

\* position of an object in the creation loop
CreatedAt(obj) == CHOOSE i \in DOMAIN applied.created : applied.created[i].obj = obj

\* C12: in start_script a failed material creation or a failed texture import
\* aborts the run: after the failure no further material is created and no
\* further texture is imported or wired.
C12_FailureAbortsRun ==
    applied.outcome = "done" =>
        /\ \A i, j \in DOMAIN applied.created :
              (~applied.created[i].ok /\ i < j) => ~applied.created[j].ok
        /\ \A i \in DOMAIN applied.attempts :
              ~applied.attempts[i].wired =>
                  /\ Len(applied.attempts) = i
                  /\ \A j \in DOMAIN applied.created :
                        j > CreatedAt(applied.attempts[i].obj) => ~applied.created[j].ok

\* the two selected objects have the same first material
SharedFirstMaterial ==
    /\ scene3d.objects = Objects
    /\ scene3d.shader["Door"] # None
    /\ scene3d.shader["Door"] = scene3d.shader["Wall"]

\* C11: when two objects of the object list have the same first material,
\* both are keys of the map get_object_to_material_map returns, and the
\* get_file lookups are made for only one of the two.
C11_SharedMaterialBothKeyed ==
    (mapFile.written /\ SharedFirstMaterial) =>
        /\ Keys_(mapFile.data) = {"Door", "Wall"}
        /\ Cardinality({mapFile.reads[i][1] : i \in DOMAIN mapFile.reads}) = 1

\* C10: every channel name written into a map by the exporter has an entry
\* in channel_remap, so remap_channels keeps every channel of every object.
C10_RemapTotalOverExportedChannels ==
    mapFile.written =>
        \A i \in DOMAIN mapFile.data :
            /\ \A j \in DOMAIN mapFile.data[i][2] :
                  Truthy(Get(channel_remap, mapFile.data[i][2][j][1]))
            /\ Len(Get(remap_channels(mapFile.data, channel_remap),
                       mapFile.data[i][1])) = Len(mapFile.data[i][2])

\* a map written with all five channels ticked for some object
C10_AllChannelsExported ==
    /\ mapFile.written
    /\ \E i \in DOMAIN mapFile.data : Len(mapFile.data[i][2]) = Len(channels)

----------------------------------------------------------------------------
(* Claims on the pipeline (Spec)                                           *)

\* C1: exports of one key run one after another assign strictly increasing
\* versions, whatever the directory held before, and each writes a file
\* name that no file of the directory had, so no two files share a version.
C1_ExportVersionsIncrease ==
    /\ \A i, j \in 1..Len(exports) :
          (i < j /\ exports[i].key = exports[j].key) =>
              exports[i].version < exports[j].version
    /\ \A i \in 1..Len(exports) : exports[i].fresh

\* two Blender exports into a directory that held versions 1 and 3, and two
\* Maya exports into one that held versions 9 and 10
C1_TwoExportsAfterGap ==
    /\ \E i, j \in 1..Len(exports) :
          /\ i < j
          /\ exports[i].key \in BlenderTreeKeys /\ exports[j].key = exports[i].key
          /\ exports[i].version = 2 /\ exports[j].version = 4
    /\ \E i, j \in 1..Len(exports) :
          /\ i < j
          /\ exports[i].key \in MayaTreeKeys /\ exports[j].key = exports[i].key
          /\ exports[i].version = 11 /\ exports[j].version = 12

\* C2: an import run that follows another run, with no file written in
\* between and the asset database as the earlier runs left it, issues no
\* import task.
C2_SecondRunIssuesNoTask ==
    rerun => \A k \in TreeKeys : ~plan[k].issued

\* the identity <destination scene folder>/anim_{character}_{scene}
AnimIdentity(character, scene) ==
    <<character, scene, anim_ \o KeyName(character, scene)>>

\* a directory that holds versioned files of the key and nothing else
OnlyKeyVersions(dir, character, scene) ==
    /\ dir.exists
    /\ dir.files # {}
    /\ dir.files = {FormatName(character, scene, n, fbx) :
                       n \in KeyVersions(dir.files, character, scene)}

\* C6: for a scene directory holding versioned files of the key, the run
\* takes the highest version as source, and the identity it checks in the
\* asset database and the identity it imports to are both
\* <scene folder>/anim_{character}_{scene}.
C6_PlanChecksAndTargetsAnimIdentity ==
    \A k \in TreeKeys :
        (runs >= 1 /\ ~changed /\ OnlyKeyVersions(disk[k], k[1], k[2])) =>
            /\ plan[k].latest =
                   FormatName(k[1], k[2],
                              MaxOr0(KeyVersions(disk[k].files, k[1], k[2])), fbx)
            /\ plan[k].target = AnimIdentity(k[1], k[2])
            /\ plan[k].checked = AnimIdentity(k[1], k[2])

\* the versions N of the files {key}_v{N}.fbx a scene directory of the tree
\* can hold: those it started with and those the exports added
TreeVersions(files, character, scene) ==
    {n \in 1..(MaxVersion + MaxSteps) : FormatName(character, scene, n, fbx) \in files}

\* C16: after a run imported version N of a key, once a file of the key with
\* a greater version is in the scene directory the next run issues an import
\* task whose source is the new highest-version file, and the asset database
\* holds the asset imported from it.
C16_NewerVersionIsImported ==
    [][runs' = runs + 1 =>
          \A k \in TreeKeys :
              LET latest == MaxOr0(TreeVersions(disk[k].files, k[1], k[2]))
              IN  (/\ plan[k].issued
                   /\ \E n \in 1..(MaxVersion + MaxSteps) :
                         /\ plan[k].latest = FormatName(k[1], k[2], n, fbx)
                         /\ n < latest) =>
                      /\ plan'[k].issued
                      /\ plan'[k].latest = FormatName(k[1], k[2], latest, fbx)
                      /\ plan'[k].task.filename = <<k[1], k[2], plan'[k].latest>>
                      /\ plan'[k].target \in assets'
                      /\ imports'[k] = Append(imports[k], latest)]_vars

\* a run has just imported a key's file of a version higher than the one
\* the run before imported, the file being one an export wrote in between
C16_NewerVersionImported ==
    \E k \in TreeKeys :
        LET n == Len(imports[k])
        IN  /\ n >= 2 /\ runs >= 2 /\ ~changed
            /\ plan[k].issued
            /\ plan[k].latest = FormatName(k[1], k[2], imports[k][n], fbx)
            /\ imports[k][n - 1] < imports[k][n]
            /\ FormatName(k[1], k[2], imports[k][n - 1], fbx) \in disk[k].files
            /\ \E i \in 1..Len(exports) :
                  exports[i].key = k /\ exports[i].version = imports[k][n]

\* C17: an export deletes, renames or overwrites no file of the export
\* directory: every file there before it is there after it, and the path
\* handed to the backend exporter is one at which no file existed.
C17_ExportKeepsExistingFiles ==
    [][/\ \A k \in TreeKeys : disk[k].files \subseteq disk'[k].files
       /\ Len(exports') > Len(exports) =>
              LET e == exports'[Len(exports')]
              IN  /\ e.fresh
                  /\ FormatName(e.key[1], e.key[2], e.version, fbx) \notin disk[e.key].files
                  /\ disk'[e.key].files = disk[e.key].files \cup
                         {FormatName(e.key[1], e.key[2], e.version, fbx)}]_vars

\* an export has written its file into a directory beside the versions that
\* were there: Blender's v2 beside v1 and v3, Maya's v11 beside v9 and v10
C17_WrittenBesideExisting ==
    /\ \E i \in 1..Len(exports) :
          LET k == exports[i].key
          IN  /\ k \in BlenderTreeKeys /\ exports[i].version = 2
              /\ {FormatName(k[1], k[2], n, fbx) : n \in {1, 2, 3}} \subseteq disk[k].files
    /\ \E i \in 1..Len(exports) :
          LET k == exports[i].key
          IN  /\ k \in MayaTreeKeys /\ exports[i].version = 11
              /\ {FormatName(k[1], k[2], n, fbx) : n \in {9, 10, 11}} \subseteq disk[k].files

\* C15: the import task treats the source as animation-only, mesh and
\* skeletal-mesh creation disabled, and replaces an existing asset at the
\* same identity.
C15_TaskIsAnimationOnly ==
    \A k \in TreeKeys :
        plan[k].issued =>
            /\ plan[k].task.replace_existing
            /\ ~plan[k].task.options.import_mesh
            /\ ~plan[k].task.options.import_as_skeletal

\* C8: over any interleaving of exports and import runs, the versions of
\* the files imported for a key never decrease.
C8_ImportedVersionNeverDecreases ==
    \A k \in TreeKeys :
        \A i, j \in 1..Len(imports[k]) :
            i < j => imports[k][i] <= imports[k][j]

\* a key imported twice, an export of a higher version in between
C8_ImportedAgainAfterExport ==
    \E k \in TreeKeys :
        /\ Len(imports[k]) >= 2
        /\ imports[k][1] < imports[k][2]
        /\ \E i \in 1..Len(exports) :
              exports[i].key = k /\ exports[i].version = imports[k][2]

====
